---- MODULE Spec2Model ----
(***************************************************************************)
(* Model of the protobuf schema comparator (src/main.cpp).                 *)
(*                                                                         *)
(* The program loads two schema files, compares them (whole file, or one   *)
(* named message/enum), trims the resulting Section tree and prints it.    *)
(* Descriptors are records; a pointer returned by a Find* lookup is the    *)
(* 1-based index of the entry found, and nullptr is 0.                     *)
(***************************************************************************)
EXTENDS Integers, Sequences, FiniteSets, TLC

VARIABLES
    source1,       \* main: Source source1 (its file descriptor and pool)
    source2,       \* main: Source source2
    message_name,  \* main: argv[5]
    root,          \* Comparison::root
    untrimmed,     \* the value of root when root.trim() was entered
    arg1,          \* first descriptor of a direct call of a Section-returning compare
    arg2,          \* second descriptor of that call
    section,       \* the Section that call returned
    pc             \* position of the program

vars == <<source1, source2, message_name, root, untrimmed, arg1, arg2, section, pc>>

-----------------------------------------------------------------------------
(* Bounds of the model *)

\* field numbers and enum value numbers are drawn from 1..MaxId (and -1, 10)
MaxId == 2
\* deepest chain of compare(Descriptor, Descriptor) frames the stack holds
StackLimit == 3
\* sections added below the root while a tree is built by hand
MaxSections == 3
\* items added while a tree is built by hand
MaxItems == 2

-----------------------------------------------------------------------------
(* Strings *)

Digit(d) ==
    CASE d = 0 -> "0" [] d = 1 -> "1" [] d = 2 -> "2" [] d = 3 -> "3"
      [] d = 4 -> "4" [] d = 5 -> "5" [] d = 6 -> "6" [] d = 7 -> "7"
      [] d = 8 -> "8" [] d = 9 -> "9"

RECURSIVE to_string(_)
\* std::to_string(int): decimal digits, a leading '-' for a negative number
to_string(n) ==
    IF n < 0 THEN "-" \o to_string(0 - n)
    ELSE IF n < 10 THEN Digit(n)
    ELSE to_string(n \div 10) \o Digit(n % 10)

\* full_name(): the name qualified by the enclosing scope, if there is one
Qualify(scope, name) ==
    IF scope = "" THEN name ELSE scope \o "." \o name

-----------------------------------------------------------------------------
(* Report tree: Comparison::Item and Comparison::Section *)

ItemType ==
    {"Enum_Value_Id_Changed", "Enum_Value_Added", "Enum_Value_Removed",
     "Message_Field_Name_Changed", "Message_Field_Id_Changed",
     "Message_Field_Label_Changed", "Message_Field_Type_Changed",
     "Message_Field_Default_Value_Changed", "Message_Field_Added",
     "Message_Field_Removed", "File_Message_Added", "File_Message_Removed",
     "File_Enum_Added", "File_Enum_Removed", "Name_Missing"}

SectionType ==
    {"Root_Section", "Message_Comparison", "Message_Field_Comparison",
     "Enum_Comparison", "Enum_Value_Comparison"}

Item(t, a, b) == [type |-> t, a |-> a, b |-> b]

Section(t, a, b) ==
    [type |-> t, a |-> a, b |-> b, subsections |-> <<>>, items |-> <<>>]

\* subsections.push_back(s)
push_back(sec, s) ==
    [sec EXCEPT !.subsections = Append(@, s)]

\* Section::add_subsection: a new, empty subsection at the back
add_subsection(sec, t, a, b) ==
    push_back(sec, Section(t, a, b))

\* add_item, were the item put at the front
add_item_front(sec, t, a, b) ==
    [sec EXCEPT !.items = <<Item(t, a, b)>> \o @]

\* Section::add_item: a new item at the back
add_item(sec, t, a, b) ==
    [sec EXCEPT !.items = Append(@, Item(t, a, b))]

\* is_empty, were the subsections not looked at
is_empty_items_only(sec) ==
    sec.items = <<>>

\* Section::is_empty
is_empty(sec) ==
    sec.subsections = <<>> /\ sec.items = <<>>

RECURSIVE trim(_)
RECURSIVE trim_loop(_, _)
\* the while loop of Section::trim: s is the position of the iterator
trim_loop(sec, s) ==
    IF s > Len(sec.subsections) THEN sec
    ELSE LET trimmed == trim(sec.subsections[s])
         IN IF is_empty(trimmed)
            THEN trim_loop([sec EXCEPT !.subsections =
                               SubSeq(@, 1, s - 1) \o SubSeq(@, s + 1, Len(@))], s)
            ELSE trim_loop([sec EXCEPT !.subsections[s] = trimmed], s + 1)

\* Section::trim
trim(sec) ==
    trim_loop(sec, 1)

-----------------------------------------------------------------------------
(* Schema side: descriptors as the protobuf library hands them out *)

Labels == {"optional", "required", "repeated"}

\* FieldDescriptor::Type by its type_name()
Types ==
    {"int32", "sint32", "int64", "uint32", "uint64", "float", "double",
     "bool", "string", "bytes", "enum", "message", "group"}

\* FieldDescriptor::cpp_type(): the value representation of a type
cpp_type(field) ==
    CASE field.type \in {"int32", "sint32"} -> "CPPTYPE_INT32"
      [] field.type = "int64" -> "CPPTYPE_INT64"
      [] field.type = "uint32" -> "CPPTYPE_UINT32"
      [] field.type = "uint64" -> "CPPTYPE_UINT64"
      [] field.type = "float" -> "CPPTYPE_FLOAT"
      [] field.type = "double" -> "CPPTYPE_DOUBLE"
      [] field.type = "bool" -> "CPPTYPE_BOOL"
      [] field.type \in {"string", "bytes"} -> "CPPTYPE_STRING"
      [] field.type = "enum" -> "CPPTYPE_ENUM"
      [] field.type \in {"message", "group"} -> "CPPTYPE_MESSAGE"

\* the storage of a default value: one slot per representation
DefaultValue(num, nan, str, flag, ename, enumber) ==
    [num |-> num, nan |-> nan, str |-> str, flag |-> flag,
     enum |-> [name |-> ename, number |-> enumber]]

NoDefault == DefaultValue(0, FALSE, "", FALSE, "", 0)

default_value_int32(field) == field.default_value.num
default_value_int64(field) == field.default_value.num
default_value_uint32(field) == field.default_value.num
default_value_uint64(field) == field.default_value.num
default_value_float(field) ==
    [nan |-> field.default_value.nan, num |-> field.default_value.num]
default_value_double(field) ==
    [nan |-> field.default_value.nan, num |-> field.default_value.num]
default_value_bool(field) == field.default_value.flag
default_value_string(field) == field.default_value.str
default_value_enum(field) == field.default_value.enum

\* operator== on float and double: a NaN equals nothing, itself included
FloatEq(x, y) ==
    ~x.nan /\ ~y.nan /\ x.num = y.num

\* index of the first entry of seq named name, 0 (nullptr) if there is none
FindByName(seq, name) ==
    IF \E i \in 1..Len(seq) : seq[i].name = name
    THEN CHOOSE i \in 1..Len(seq) :
            seq[i].name = name /\ \A j \in 1..(i - 1) : seq[j].name # name
    ELSE 0

FindByFullName(seq, name) ==
    IF \E i \in 1..Len(seq) : seq[i].full_name = name
    THEN CHOOSE i \in 1..Len(seq) :
            seq[i].full_name = name /\ \A j \in 1..(i - 1) : seq[j].full_name # name
    ELSE 0

\* EnumDescriptor::FindValueByName
FindValueByName(enum, name) ==
    FindByName(enum.values, name)

\* Descriptor::FindFieldByName
FindFieldByName(desc, name) ==
    FindByName(desc.fields, name)

\* FileDescriptor::FindMessageTypeByName: a top-level message by its simple name
FindMessageTypeByName(file, name) ==
    FindByName(file.messages, name)

\* FileDescriptor::FindEnumTypeByName: a top-level enum by its simple name
FindEnumTypeByName(file, name) ==
    FindByName(file.enums, name)

\* DescriptorPool::FindMessageTypeByName: by fully-qualified name
PoolFindMessageTypeByName(pool, name) ==
    FindByFullName(pool.messages, name)

\* DescriptorPool::FindEnumTypeByName: by fully-qualified name
PoolFindEnumTypeByName(pool, name) ==
    FindByFullName(pool.enums, name)

\* FieldDescriptor::enum_type(): the descriptor the field's type refers to
enum_type(pool, field) ==
    pool.enums[PoolFindEnumTypeByName(pool, field.type_ref)]

\* FieldDescriptor::message_type()
message_type(pool, field) ==
    pool.messages[PoolFindMessageTypeByName(pool, field.type_ref)]

-----------------------------------------------------------------------------
(* Comparator *)

\* compare_default_value: TRUE when the two defaults are taken to be equal
compare_default_value(field1, field2) ==
    IF field1.has_default_value # field2.has_default_value THEN FALSE
    ELSE IF ~field1.has_default_value THEN TRUE
    ELSE IF cpp_type(field1) # cpp_type(field2) THEN FALSE
    ELSE CASE cpp_type(field1) = "CPPTYPE_INT32" ->
                default_value_int32(field1) = default_value_int32(field2)
           [] cpp_type(field1) = "CPPTYPE_INT64" ->
                default_value_int64(field1) = default_value_int64(field2)
           [] cpp_type(field1) = "CPPTYPE_UINT32" ->
                default_value_uint32(field1) = default_value_uint32(field1)
           [] cpp_type(field1) = "CPPTYPE_UINT64" ->
                default_value_uint64(field1) = default_value_uint64(field2)
           [] cpp_type(field1) = "CPPTYPE_FLOAT" ->
                FloatEq(default_value_float(field1), default_value_float(field2))
           [] cpp_type(field1) = "CPPTYPE_DOUBLE" ->
                FloatEq(default_value_double(field1), default_value_double(field1))
           [] cpp_type(field1) = "CPPTYPE_BOOL" ->
                default_value_bool(field1) = default_value_bool(field1)
           [] cpp_type(field1) = "CPPTYPE_STRING" ->
                default_value_string(field1) = default_value_string(field1)
           [] cpp_type(field1) = "CPPTYPE_ENUM" ->
                default_value_enum(field1).number = default_value_enum(field1).number
           [] OTHER -> FALSE

\* the Enum_Value_Comparison subsection of two same-named values
CompareEnumValue(value1, value2) ==
    LET subsection == Section("Enum_Value_Comparison", value1.name, value2.name)
    IN IF value1.number # value2.number
       THEN add_item(subsection, "Enum_Value_Id_Changed",
                     to_string(value1.number), to_string(value2.number))
       ELSE subsection

\* index of the first value of enum with the given number, 0 if there is none
FindValueByNumber(enum, number) ==
    IF \E i \in 1..Len(enum.values) : enum.values[i].number = number
    THEN CHOOSE i \in 1..Len(enum.values) :
            /\ enum.values[i].number = number
            /\ \A j \in 1..(i - 1) : enum.values[j].number # number
    ELSE 0

RECURSIVE EnumValuesOfFirstById(_, _, _, _)
\* the first loop of the enum comparison, were the values matched by id
EnumValuesOfFirstById(enum1, enum2, i, sec) ==
    IF i > Len(enum1.values) THEN sec
    ELSE LET value1 == enum1.values[i]
             v2 == FindValueByNumber(enum2, value1.number)
         IN IF v2 # 0
            THEN EnumValuesOfFirstById(enum1, enum2, i + 1,
                     push_back(sec, CompareEnumValue(value1, enum2.values[v2])))
            ELSE EnumValuesOfFirstById(enum1, enum2, i + 1,
                     add_item(sec, "Enum_Value_Removed", value1.name, ""))

RECURSIVE EnumValuesOfFirst(_, _, _, _)
\* first loop of compare(enum1, enum2): the values of enum1, from index i on
EnumValuesOfFirst(enum1, enum2, i, sec) ==
    IF i > Len(enum1.values) THEN sec
    ELSE LET value1 == enum1.values[i]
             v2 == FindValueByName(enum2, value1.name)
         IN IF v2 # 0
            THEN EnumValuesOfFirst(enum1, enum2, i + 1,
                     push_back(sec, CompareEnumValue(value1, enum2.values[v2])))
            ELSE EnumValuesOfFirst(enum1, enum2, i + 1,
                     add_item(sec, "Enum_Value_Removed", value1.name, ""))

RECURSIVE EnumValuesAdded(_, _, _, _)
\* second loop of compare(enum1, enum2): the values only enum2 has
EnumValuesAdded(enum1, enum2, i, sec) ==
    IF i > Len(enum2.values) THEN sec
    ELSE LET value2 == enum2.values[i]
             v1 == FindValueByName(enum1, value2.name)
         IN IF v1 = 0
            THEN EnumValuesAdded(enum1, enum2, i + 1,
                     add_item(sec, "Enum_Value_Added", "", value2.name))
            ELSE EnumValuesAdded(enum1, enum2, i + 1, sec)

\* Comparison::compare(const EnumDescriptor *, const EnumDescriptor *)
CompareEnum(enum1, enum2) ==
    EnumValuesAdded(enum1, enum2, 1,
        EnumValuesOfFirst(enum1, enum2, 1,
            Section("Enum_Comparison", enum1.full_name, enum2.full_name)))

RECURSIVE CompareDesc(_, _, _, _)
RECURSIVE CompareField(_, _, _, _)

\* the name, number and label checks of compare(field1, field2)
CompareFieldHeader(field1, field2, sec) ==
    LET s1 == IF field1.name # field2.name
              THEN add_item(sec, "Message_Field_Name_Changed", field1.name, field2.name)
              ELSE sec
        s2 == IF field1.number # field2.number
              THEN add_item(s1, "Message_Field_Id_Changed",
                            to_string(field1.number), to_string(field2.number))
              ELSE s1
    IN IF field1.label # field2.label
       THEN add_item(s2, "Message_Field_Label_Changed", "", "")
       ELSE s2

\* the type check, were a renamed enum or message type not descended into
CompareFieldTypeNoDescentOnRename(pool1, pool2, field1, field2, sec) ==
    IF field1.type # field2.type
    THEN add_item(sec, "Message_Field_Type_Changed", field1.type, field2.type)
    ELSE IF field1.type = "enum"
    THEN LET enum1 == enum_type(pool1, field1)
             enum2 == enum_type(pool2, field2)
         IN IF enum1.full_name # enum2.full_name
            THEN add_item(sec, "Message_Field_Type_Changed",
                          enum1.full_name, enum2.full_name)
            ELSE push_back(sec, CompareEnum(enum1, enum2))
    ELSE IF field1.type = "message"
    THEN LET msg1 == message_type(pool1, field1)
             msg2 == message_type(pool2, field2)
         IN IF msg1.full_name # msg2.full_name
            THEN add_item(sec, "Message_Field_Type_Changed",
                          msg1.full_name, msg2.full_name)
            ELSE push_back(sec, CompareDesc(pool1, pool2, msg1, msg2))
    ELSE sec

\* the type check of compare(field1, field2), with the nested comparison
CompareFieldType(pool1, pool2, field1, field2, sec) ==
    IF field1.type # field2.type
    THEN add_item(sec, "Message_Field_Type_Changed", field1.type, field2.type)
    ELSE IF field1.type = "enum"
    THEN LET enum1 == enum_type(pool1, field1)
             enum2 == enum_type(pool2, field2)
             s1 == IF enum1.full_name # enum2.full_name
                   THEN add_item(sec, "Message_Field_Type_Changed",
                                 enum1.full_name, enum2.full_name)
                   ELSE sec
         IN push_back(s1, CompareEnum(enum1, enum2))
    ELSE IF field1.type = "message"
    THEN LET msg1 == message_type(pool1, field1)
             msg2 == message_type(pool2, field2)
             s1 == IF msg1.full_name # msg2.full_name
                   THEN add_item(sec, "Message_Field_Type_Changed",
                                 msg1.full_name, msg2.full_name)
                   ELSE sec
         IN push_back(s1, CompareDesc(pool1, pool2, msg1, msg2))
    ELSE sec

\* the default value check of compare(field1, field2)
CompareFieldDefault(field1, field2, sec) ==
    IF cpp_type(field1) = cpp_type(field2) /\ ~compare_default_value(field1, field2)
    THEN add_item(sec, "Message_Field_Default_Value_Changed", "", "")
    ELSE sec

\* Comparison::compare(const FieldDescriptor *, const FieldDescriptor *)
CompareField(pool1, pool2, field1, field2) ==
    CompareFieldDefault(field1, field2,
        CompareFieldType(pool1, pool2, field1, field2,
            CompareFieldHeader(field1, field2,
                Section("Message_Field_Comparison", field1.full_name, field2.full_name))))

RECURSIVE FieldsOfFirst(_, _, _, _, _, _)
\* first loop of compare(desc1, desc2): the fields of desc1, from index i on
FieldsOfFirst(pool1, pool2, desc1, desc2, i, sec) ==
    IF i > Len(desc1.fields) THEN sec
    ELSE LET field1 == desc1.fields[i]
             f2 == FindFieldByName(desc2, field1.name)
         IN IF f2 # 0
            THEN FieldsOfFirst(pool1, pool2, desc1, desc2, i + 1,
                     push_back(sec, CompareField(pool1, pool2, field1, desc2.fields[f2])))
            ELSE FieldsOfFirst(pool1, pool2, desc1, desc2, i + 1,
                     add_item(sec, "Message_Field_Removed", field1.name, ""))

RECURSIVE FieldsAdded(_, _, _, _)
\* second loop of compare(desc1, desc2): the fields only desc2 has
FieldsAdded(desc1, desc2, i, sec) ==
    IF i > Len(desc2.fields) THEN sec
    ELSE LET field2 == desc2.fields[i]
             f1 == FindFieldByName(desc1, field2.name)
         IN IF f1 = 0
            THEN FieldsAdded(desc1, desc2, i + 1,
                     add_item(sec, "Message_Field_Added", "", field2.name))
            ELSE FieldsAdded(desc1, desc2, i + 1, sec)

\* Comparison::compare(const Descriptor *, const Descriptor *)
CompareDesc(pool1, pool2, desc1, desc2) ==
    FieldsAdded(desc1, desc2, 1,
        FieldsOfFirst(pool1, pool2, desc1, desc2, 1,
            Section("Message_Comparison", desc1.full_name, desc2.full_name)))

RECURSIVE StackExhausted(_, _, _, _, _)
\* whether the chain of compare(Descriptor, Descriptor) frames that starts with
\* (desc1, desc2) at the given depth grows beyond StackLimit: each pair of
\* same-named message-typed fields opens the frame of the two referenced types
StackExhausted(pool1, pool2, desc1, desc2, depth) ==
    \/ depth > StackLimit
    \/ \E i \in 1..Len(desc1.fields) :
          LET field1 == desc1.fields[i]
              f2 == FindFieldByName(desc2, field1.name)
          IN /\ f2 # 0
             /\ field1.type = "message"
             /\ desc2.fields[f2].type = "message"
             /\ StackExhausted(pool1, pool2, message_type(pool1, field1),
                               message_type(pool2, desc2.fields[f2]), depth + 1)

-----------------------------------------------------------------------------
(* Entry points *)

RECURSIVE FileMessagesOfFirst(_, _, _, _)
\* compare(source1, source2), first loop: the top-level messages of file1
FileMessagesOfFirst(src1, src2, i, sec) ==
    IF i > Len(src1.messages) THEN sec
    ELSE LET msg1 == src1.messages[i]
             m2 == FindMessageTypeByName(src2, msg1.name)
         IN IF m2 # 0
            THEN FileMessagesOfFirst(src1, src2, i + 1,
                     push_back(sec, CompareDesc(src1, src2, msg1, src2.messages[m2])))
            ELSE FileMessagesOfFirst(src1, src2, i + 1,
                     add_item(sec, "File_Message_Removed", msg1.full_name, ""))

RECURSIVE FileMessagesAddedBySimpleName(_, _, _, _)
\* the second loop, were an added message reported by name() for full_name()
FileMessagesAddedBySimpleName(src1, src2, i, sec) ==
    IF i > Len(src2.messages) THEN sec
    ELSE LET msg2 == src2.messages[i]
             m1 == FindMessageTypeByName(src1, msg2.name)
         IN IF m1 = 0
            THEN FileMessagesAddedBySimpleName(src1, src2, i + 1,
                     add_item(sec, "File_Message_Added", " ", msg2.name))
            ELSE FileMessagesAddedBySimpleName(src1, src2, i + 1, sec)

RECURSIVE FileMessagesAdded(_, _, _, _)
\* compare(source1, source2), second loop: the messages only file2 has
FileMessagesAdded(src1, src2, i, sec) ==
    IF i > Len(src2.messages) THEN sec
    ELSE LET msg2 == src2.messages[i]
             m1 == FindMessageTypeByName(src1, msg2.name)
         IN IF m1 = 0
            THEN FileMessagesAdded(src1, src2, i + 1,
                     add_item(sec, "File_Message_Added", " ", msg2.full_name))
            ELSE FileMessagesAdded(src1, src2, i + 1, sec)

RECURSIVE FileEnumsOfFirst(_, _, _, _)
\* compare(source1, source2), third loop: the top-level enums of file1
FileEnumsOfFirst(src1, src2, i, sec) ==
    IF i > Len(src1.enums) THEN sec
    ELSE LET enum1 == src1.enums[i]
             e2 == FindEnumTypeByName(src2, enum1.name)
         IN IF e2 # 0
            THEN FileEnumsOfFirst(src1, src2, i + 1,
                     push_back(sec, CompareEnum(enum1, src2.enums[e2])))
            ELSE FileEnumsOfFirst(src1, src2, i + 1,
                     add_item(sec, "File_Enum_Removed", enum1.full_name, ""))

RECURSIVE FileEnumsAdded(_, _, _, _)
\* compare(source1, source2), fourth loop: the enums only file2 has
FileEnumsAdded(src1, src2, i, sec) ==
    IF i > Len(src2.enums) THEN sec
    ELSE LET enum2 == src2.enums[i]
             e1 == FindEnumTypeByName(src1, enum2.name)
         IN IF e1 = 0
            THEN FileEnumsAdded(src1, src2, i + 1,
                     add_item(sec, "File_Enum_Added", "", enum2.full_name))
            ELSE FileEnumsAdded(src1, src2, i + 1, sec)

\* Comparison::compare(Source &, Source &): the four loops, in the code's order
CompareSources(src1, src2, sec) ==
    FileEnumsAdded(src1, src2, 1,
        FileEnumsOfFirst(src1, src2, 1,
            FileMessagesAdded(src1, src2, 1,
                FileMessagesOfFirst(src1, src2, 1, sec))))

\* the single-entity comparison, were only messages resolved
CompareNamedMessagesOnly(src1, src2, name, sec) ==
    LET desc1 == PoolFindMessageTypeByName(src1, name)
        desc2 == PoolFindMessageTypeByName(src2, name)
    IN IF desc1 # 0 /\ desc2 # 0
       THEN push_back(sec, CompareDesc(src1, src2, src1.messages[desc1], src2.messages[desc2]))
       ELSE add_item(sec, "Name_Missing", name, name)

\* Comparison::compare(Source &, Source &, const string &)
CompareNamed(src1, src2, name, sec) ==
    LET desc1 == PoolFindMessageTypeByName(src1, name)
        desc2 == PoolFindMessageTypeByName(src2, name)
        enum1 == PoolFindEnumTypeByName(src1, name)
        enum2 == PoolFindEnumTypeByName(src2, name)
    IN IF desc1 # 0 /\ desc2 # 0
       THEN push_back(sec, CompareDesc(src1, src2, src1.messages[desc1], src2.messages[desc2]))
       ELSE IF enum1 # 0 /\ enum2 # 0
       THEN push_back(sec, CompareEnum(src1.enums[enum1], src2.enums[enum2]))
       ELSE add_item(sec, "Name_Missing", name, name)

\* whether compare(source1, source2) runs out of stack
SourcesStackExhausted(src1, src2) ==
    \E i \in 1..Len(src1.messages) :
        LET m2 == FindMessageTypeByName(src2, src1.messages[i].name)
        IN /\ m2 # 0
           /\ StackExhausted(src1, src2, src1.messages[i], src2.messages[m2], 1)

\* whether compare(source1, source2, name) runs out of stack
NamedStackExhausted(src1, src2, name) ==
    LET desc1 == PoolFindMessageTypeByName(src1, name)
        desc2 == PoolFindMessageTypeByName(src2, name)
    IN /\ desc1 # 0
       /\ desc2 # 0
       /\ StackExhausted(src1, src2, src1.messages[desc1], src2.messages[desc2], 1)

\* whether compare(field1, field2) runs out of stack
FieldStackExhausted(pool1, pool2, field1, field2) ==
    /\ field1.type = "message"
    /\ field2.type = "message"
    /\ StackExhausted(pool1, pool2, message_type(pool1, field1),
                      message_type(pool2, field2), 1)

-----------------------------------------------------------------------------
(* The schemas the model draws from *)

Value(name, number) == [name |-> name, number |-> number]

\* a field as declared in a message body; ref is the simple name of its type
FieldSpec(name, number, label, type, ref, has_default, default) ==
    [name |-> name, number |-> number, label |-> label, type |-> type,
     ref |-> ref, has_default_value |-> has_default, default_value |-> default]

Plain(name, number) ==
    FieldSpec(name, number, "optional", "int32", "", FALSE, NoDefault)

MsgSpec(name, fields) == [name |-> name, fields |-> fields]

EnumSpec(name, values) == [name |-> name, values |-> values]

\* the FieldDescriptor of a declared field of message msg_full in package pkg
MkField(pkg, msg_full, f) ==
    [name |-> f.name, full_name |-> Qualify(msg_full, f.name), number |-> f.number,
     label |-> f.label, type |-> f.type,
     type_ref |-> IF f.ref = "" THEN "" ELSE Qualify(pkg, f.ref),
     has_default_value |-> f.has_default_value, default_value |-> f.default_value]

\* the Descriptor of a declared top-level message
MkMsg(pkg, m) ==
    [name |-> m.name, full_name |-> Qualify(pkg, m.name),
     fields |-> [i \in 1..Len(m.fields) |->
                    MkField(pkg, Qualify(pkg, m.name), m.fields[i])]]

\* the EnumDescriptor of a declared top-level enum
MkEnum(pkg, e) ==
    [name |-> e.name, full_name |-> Qualify(pkg, e.name), values |-> e.values]

\* a loaded Source: the file's package, top-level messages and enums, in
\* declaration order; its pool holds the same types
MkSource(pkg, msgs, enums) ==
    [package |-> pkg,
     messages |-> [i \in 1..Len(msgs) |-> MkMsg(pkg, msgs[i])],
     enums |-> [i \in 1..Len(enums) |-> MkEnum(pkg, enums[i])]]

Packages == {"", "p"}

Ids == 1..MaxId

\* the lists of at most two distinct names of S
NameLists(S) ==
    {<<>>} \cup {<<a>> : a \in S} \cup {ab \in S \X S : ab[1] # ab[2]}

\* files that differ in which top-level types they declare, and in what order
TopLevelSources ==
    {MkSource(pkg,
              [i \in 1..Len(ms) |-> MsgSpec(ms[i], <<>>)],
              [i \in 1..Len(es) |-> EnumSpec(es[i], <<Value("A", 1)>>)]) :
        pkg \in Packages, ms \in NameLists({"M", "N"}), es \in NameLists({"E", "F"})}

\* a file whose enum has the name other files give a message
ClashSources ==
    {MkSource(pkg, <<>>, <<EnumSpec("M", <<Value("A", 1)>>)>>) : pkg \in Packages}

ScalarBodies ==
    {<<Plain("x", n)>> : n \in Ids}
    \cup {<<Plain("y", 2)>>, <<Plain("x", 1), Plain("y", 2)>>,
          <<Plain("y", 2), Plain("x", 1)>>,
          <<FieldSpec("x", 1, "optional", "float", "", TRUE,
                      DefaultValue(0, TRUE, "", FALSE, "", 0))>>,
          <<FieldSpec("x", 1, "optional", "uint32", "", TRUE,
                      DefaultValue(1, FALSE, "", FALSE, "", 0))>>,
          <<FieldSpec("x", 1, "optional", "uint32", "", TRUE,
                      DefaultValue(2, FALSE, "", FALSE, "", 0))>>}

Ref(name, type, ref) ==
    FieldSpec(name, 1, "optional", type, ref, FALSE, NoDefault)

EnumBodies ==
    {<<Value("A", n)>> : n \in Ids}
    \cup {<<Value("B", 1)>>, <<Value("A", 1), Value("B", 2)>>,
          <<Value("B", 2), Value("A", 1)>>}

\* files with one message M whose body varies: scalar fields, fields of a
\* message type (M itself, N, or N that refers back to M) and of an enum type
BodySources ==
    {MkSource("p", <<MsgSpec("M", body)>>, <<>>) : body \in ScalarBodies}
    \cup {MkSource("p", <<MsgSpec("M", <<Ref("x", "message", "M")>>)>>, <<>>),
          MkSource("p", <<MsgSpec("M", <<Ref("x", "message", "N")>>),
                         MsgSpec("N", <<>>)>>, <<>>),
          MkSource("p", <<MsgSpec("M", <<Ref("x", "message", "N")>>),
                         MsgSpec("N", <<Ref("x", "message", "M")>>)>>, <<>>)}
    \cup {MkSource("p", <<MsgSpec("M", <<Ref("x", "enum", "E")>>)>>,
                   <<EnumSpec("E", body)>>) : body \in EnumBodies}

Sources == TopLevelSources \cup ClashSources \cup BodySources

MessageNames == {".", "M", "p.M", "N", "E", "p.E", "Z"}

\* enum bodies for direct calls of the enum comparison: one or two values
\* named A and B with ids of Ids, in both orders, negative and multi-digit
\* ids, and a three-value body
UnitEnumBodies ==
    {<<Value(a, n)>> : a \in {"A", "B"}, n \in Ids}
    \cup {<<Value("A", n), Value("B", m)>> : n \in Ids, m \in Ids}
    \cup {<<Value("B", m), Value("A", n)>> : n \in Ids, m \in Ids}
    \cup {<<Value("A", 0 - 1)>>, <<Value("A", 10)>>, <<Value("B", 12)>>,
          <<Value("C", 1), Value("A", 1), Value("B", 2)>>}

EnumUnitSources ==
    {MkSource("p", <<>>, <<EnumSpec("E", body)>>) : body \in UnitEnumBodies}

IntDefault(n) == DefaultValue(n, FALSE, "", FALSE, "", 0)
NaNDefault == DefaultValue(0, TRUE, "", FALSE, "", 0)
BoolDefault(b) == DefaultValue(0, FALSE, "", b, "", 0)
StringDefault(str) == DefaultValue(0, FALSE, str, FALSE, "", 0)
EnumDefault(value) == DefaultValue(0, FALSE, "", FALSE, value.name, value.number)

Typed(type, ref, has_default, default) ==
    FieldSpec("x", 1, "optional", type, ref, has_default, default)

\* fields that differ in name, number and label
HeaderFieldSpecs ==
    {FieldSpec(name, number, label, "int32", "", FALSE, NoDefault) :
        name \in {"x", "y"}, number \in Ids, label \in Labels}

\* fields of every type, without a default and with defaults of the type
TypedFieldSpecs ==
    {Typed(t, "", FALSE, NoDefault) :
        t \in Types \ {"enum", "message", "group"}}
    \cup {Typed(t, "", TRUE, IntDefault(n)) :
        t \in {"int32", "int64", "uint32", "uint64", "float", "double"}, n \in 1..2}
    \cup {Typed("int32", "", TRUE, IntDefault(0)), Typed("sint32", "", TRUE, IntDefault(1))}
    \cup {Typed(t, "", TRUE, NaNDefault) : t \in {"float", "double"}}
    \cup {Typed("bool", "", TRUE, BoolDefault(b)) : b \in BOOLEAN}
    \cup {Typed("string", "", TRUE, StringDefault(str)) : str \in {"", "a"}}
    \cup {Typed("bytes", "", TRUE, StringDefault("a"))}

UnitE(variant) ==
    IF variant = 1
    THEN EnumSpec("E", <<Value("A", 1), Value("B", 2)>>)
    ELSE EnumSpec("E", <<Value("B", 1), Value("C", 2)>>)

UnitF == EnumSpec("F", <<Value("A", 1)>>)

UnitN(variant) ==
    IF variant = 1
    THEN MsgSpec("N", <<>>)
    ELSE MsgSpec("N", <<Plain("y", 2)>>)

\* fields of an enum or message type; the variant picks the referenced bodies
ReferenceFieldSpecs(variant) ==
    {Typed("enum", "E", FALSE, NoDefault), Typed("enum", "F", FALSE, NoDefault),
     Typed("enum", "F", TRUE, EnumDefault(UnitF.values[1])),
     Typed("message", "N", FALSE, NoDefault), Typed("message", "M", FALSE, NoDefault),
     Typed("group", "N", FALSE, NoDefault)}
    \cup {Typed("enum", "E", TRUE, EnumDefault(UnitE(variant).values[i])) : i \in 1..2}

UnitSource(f, variant) ==
    MkSource("p", <<MsgSpec("M", <<f>>), UnitN(variant)>>, <<UnitE(variant), UnitF>>)

FieldUnitSources ==
    {UnitSource(f, 1) : f \in HeaderFieldSpecs \cup TypedFieldSpecs}
    \cup {UnitSource(f, v) : f \in ReferenceFieldSpecs(1), v \in {1}}
    \cup {UnitSource(f, 2) : f \in ReferenceFieldSpecs(2)}

UnitSources == EnumUnitSources \cup FieldUnitSources

-----------------------------------------------------------------------------
(* Section trees built through add_subsection and add_item *)

RECURSIVE Paths(_)
\* the sections of a tree, each as the sequence of child indexes that leads to it
Paths(sec) ==
    {<<>>} \cup UNION {{<<i>> \o p : p \in Paths(sec.subsections[i])} :
                          i \in 1..Len(sec.subsections)}

RECURSIVE SectionAt(_, _)
SectionAt(sec, path) ==
    IF path = <<>> THEN sec ELSE SectionAt(sec.subsections[Head(path)], Tail(path))

RECURSIVE AddSubsectionAt(_, _, _, _, _)
\* add_subsection called on the section at path
AddSubsectionAt(sec, path, t, a, b) ==
    IF path = <<>> THEN add_subsection(sec, t, a, b)
    ELSE [sec EXCEPT !.subsections[Head(path)] =
                        AddSubsectionAt(@, Tail(path), t, a, b)]

RECURSIVE AddItemAt(_, _, _, _, _)
\* add_item called on the section at path
AddItemAt(sec, path, t, a, b) ==
    IF path = <<>> THEN add_item(sec, t, a, b)
    ELSE [sec EXCEPT !.subsections[Head(path)] = AddItemAt(@, Tail(path), t, a, b)]

RECURSIVE SumOver(_, _)
SumOver(f, n) == IF n = 0 THEN 0 ELSE f[n] + SumOver(f, n - 1)

RECURSIVE CountSections(_)
\* sections below sec
CountSections(sec) ==
    SumOver([i \in 1..Len(sec.subsections) |-> 1 + CountSections(sec.subsections[i])],
            Len(sec.subsections))

RECURSIVE CountItems(_)
\* items of sec and of every section below it
CountItems(sec) ==
    Len(sec.items)
    + SumOver([i \in 1..Len(sec.subsections) |-> CountItems(sec.subsections[i])],
              Len(sec.subsections))

-----------------------------------------------------------------------------
(* The program *)

EmptyRoot == Section("Root_Section", "", "")

NoSource == MkSource("", <<>>, <<>>)

\* main(): both sources loaded, the comparison constructed
Init ==
    /\ source1 \in Sources
    /\ source2 \in Sources
    /\ message_name \in MessageNames
    /\ root = EmptyRoot
    /\ untrimmed = EmptyRoot
    /\ arg1 = <<>>
    /\ arg2 = <<>>
    /\ section = EmptyRoot
    /\ pc = "start"

\* main(): message_name == "." -> comparison.compare(source1, source2)
CompareAll ==
    /\ pc = "start"
    /\ message_name = "."
    /\ IF SourcesStackExhausted(source1, source2)
       THEN pc' = "overflow" /\ UNCHANGED root
       ELSE pc' = "compared" /\ root' = CompareSources(source1, source2, root)
    /\ UNCHANGED <<source1, source2, message_name, untrimmed, arg1, arg2, section>>

\* main(): otherwise comparison.compare(source1, source2, message_name)
CompareOne ==
    /\ pc = "start"
    /\ message_name # "."
    /\ IF NamedStackExhausted(source1, source2, message_name)
       THEN pc' = "overflow" /\ UNCHANGED root
       ELSE pc' = "compared" /\ root' = CompareNamed(source1, source2, message_name, root)
    /\ UNCHANGED <<source1, source2, message_name, untrimmed, arg1, arg2, section>>

\* main(): comparison.root.trim(), then the tree is printed
TrimRoot ==
    /\ pc \in {"compared", "building"}
    /\ untrimmed' = root
    /\ root' = trim(root)
    /\ pc' = "trimmed"
    /\ UNCHANGED <<source1, source2, message_name, arg1, arg2, section>>

Next == CompareAll \/ CompareOne \/ TrimRoot

Spec == Init /\ [][Next]_vars

-----------------------------------------------------------------------------
(* Direct calls of the Section-returning comparisons *)

InitUnit ==
    /\ source1 \in UnitSources
    /\ source2 \in UnitSources
    /\ message_name = "."
    /\ root = EmptyRoot
    /\ untrimmed = EmptyRoot
    /\ arg1 = <<>>
    /\ arg2 = <<>>
    /\ section = EmptyRoot
    /\ pc = "start"

\* section = comparison.compare(enum1, enum2), on enums of the two sources
CallCompareEnum ==
    /\ pc = "start"
    /\ \E i \in 1..Len(source1.enums), j \in 1..Len(source2.enums) :
          /\ arg1' = source1.enums[i]
          /\ arg2' = source2.enums[j]
          /\ section' = CompareEnum(source1.enums[i], source2.enums[j])
    /\ pc' = "enum_compared"
    /\ UNCHANGED <<source1, source2, message_name, root, untrimmed>>

\* section = comparison.compare(field1, field2), on fields of the two sources
CallCompareField ==
    /\ pc = "start"
    /\ \E m \in 1..Len(source1.messages), n \in 1..Len(source2.messages) :
          \E i \in 1..Len(source1.messages[m].fields),
             j \in 1..Len(source2.messages[n].fields) :
             LET field1 == source1.messages[m].fields[i]
                 field2 == source2.messages[n].fields[j]
             IN /\ arg1' = field1
                /\ arg2' = field2
                /\ IF FieldStackExhausted(source1, source2, field1, field2)
                   THEN pc' = "overflow" /\ UNCHANGED section
                   ELSE /\ pc' = "field_compared"
                        /\ section' = CompareField(source1, source2, field1, field2)
    /\ UNCHANGED <<source1, source2, message_name, root, untrimmed>>

\* section = comparison.compare(desc1, desc2), on messages of the two sources
CallCompareDesc ==
    /\ pc = "start"
    /\ \E m \in 1..Len(source1.messages), n \in 1..Len(source2.messages) :
          LET desc1 == source1.messages[m]
              desc2 == source2.messages[n]
          IN /\ arg1' = desc1
             /\ arg2' = desc2
             /\ IF StackExhausted(source1, source2, desc1, desc2, 1)
                THEN pc' = "overflow" /\ UNCHANGED section
                ELSE /\ pc' = "message_compared"
                     /\ section' = CompareDesc(source1, source2, desc1, desc2)
    /\ UNCHANGED <<source1, source2, message_name, root, untrimmed>>

NextUnit == CallCompareEnum \/ CallCompareField \/ CallCompareDesc

SpecUnit == InitUnit /\ [][NextUnit]_vars

-----------------------------------------------------------------------------
(* A report tree built by hand, then trimmed *)

BuiltSectionTypes == {"Message_Comparison", "Enum_Comparison"}

InitTree ==
    /\ source1 = NoSource
    /\ source2 = NoSource
    /\ message_name = "."
    /\ root = EmptyRoot
    /\ untrimmed = EmptyRoot
    /\ arg1 = <<>>
    /\ arg2 = <<>>
    /\ section = EmptyRoot
    /\ pc = "building"

\* add_subsection on a section of the tree
AddSubsection ==
    /\ pc = "building"
    /\ CountSections(root) < MaxSections
    /\ \E path \in Paths(root), t \in BuiltSectionTypes :
          root' = AddSubsectionAt(root, path, t, "a", "b")
    /\ UNCHANGED <<source1, source2, message_name, untrimmed, arg1, arg2, section, pc>>

\* add_item on a section of the tree
AddItem ==
    /\ pc = "building"
    /\ CountItems(root) < MaxItems
    /\ \E path \in Paths(root) :
          root' = AddItemAt(root, path, "Name_Missing", "a", "b")
    /\ UNCHANGED <<source1, source2, message_name, untrimmed, arg1, arg2, section, pc>>

NextTree == AddSubsection \/ AddItem \/ TrimRoot

SpecTree == InitTree /\ [][NextTree]_vars

-----------------------------------------------------------------------------
(* Properties *)

Range(seq) == {seq[i] : i \in 1..Len(seq)}

NamesOf(seq) == {seq[i].name : i \in 1..Len(seq)}

\* the positions of seq that hold the item (t, a, b)
ItemPositions(seq, t, a, b) ==
    {i \in 1..Len(seq) : seq[i] = Item(t, a, b)}

\* the items of seq of type t, in order
ItemsOfType(seq, t) ==
    SelectSeq(seq, LAMBDA it : it.type = t)

RECURSIVE HasItem(_)
\* the subtree of sec holds at least one item
HasItem(sec) ==
    \/ sec.items # <<>>
    \/ \E i \in 1..Len(sec.subsections) : HasItem(sec.subsections[i])

RECURSIVE Listing(_, _, _)
RECURSIVE ListingFrom(_, _, _, _)
\* the sections below sec in pre-order, each with its depth, type, names and own
\* items; with onlyWithItems, the subtrees that hold no item are left out
ListingFrom(sec, i, depth, onlyWithItems) ==
    IF i > Len(sec.subsections) THEN <<>>
    ELSE LET child == sec.subsections[i]
             here == IF onlyWithItems /\ ~HasItem(child) THEN <<>>
                     ELSE <<[depth |-> depth, type |-> child.type, a |-> child.a,
                             b |-> child.b, items |-> child.items]>>
                          \o Listing(child, depth + 1, onlyWithItems)
         IN here \o ListingFrom(sec, i + 1, depth, onlyWithItems)

Listing(sec, depth, onlyWithItems) ==
    ListingFrom(sec, 1, depth, onlyWithItems)

\* C5: after root.trim(), (a) every section left below the root holds an item
\* somewhere in its subtree, and (b) the sections left are exactly the sections
\* of the tree before the trim whose subtree holds an item, at the same depth,
\* in the same order and with the same items of their own; the root keeps its
\* own type, names and items.
C5_TrimCorrect ==
    pc = "trimmed" =>
        /\ \A path \in Paths(root) \ {<<>>} : HasItem(SectionAt(root, path))
        /\ Listing(root, 1, FALSE) = Listing(untrimmed, 1, TRUE)
        /\ root.items = untrimmed.items
        /\ root.type = untrimmed.type /\ root.a = untrimmed.a /\ root.b = untrimmed.b

\* a trim that removed an item-less section two levels down, beside a section
\* that holds no item of its own and survives because of an item below it
C5_Witness ==
    /\ pc = "trimmed"
    /\ \E path \in Paths(untrimmed) :
          Len(path) >= 2 /\ ~HasItem(SectionAt(untrimmed, path))
    /\ \E path \in Paths(untrimmed) :
          /\ Len(path) >= 1
          /\ SectionAt(untrimmed, path).items = <<>>
          /\ HasItem(SectionAt(untrimmed, path))
          /\ path \in Paths(root)


\* the number of the value of enum that is named name
NumberOf(enum, name) ==
    (CHOOSE v \in Range(enum.values) : v.name = name).number

\* C7: enum values are matched by name only. The enum comparison of enum1 and
\* enum2 returns one Enum_Value_Comparison subsection per value name both have
\* (holding the single item Enum_Value_Id_Changed with the two ids as decimal
\* text iff the ids differ, and nothing otherwise), one Enum_Value_Removed item
\* (name, "") per name only enum1 has, one Enum_Value_Added item ("", name) per
\* name only enum2 has, and nothing else; so no item and no subsection pairs two
\* values of different names, whatever their ids.
C7_EnumValuesMatchedByName ==
    pc = "enum_compared" =>
        LET names1 == NamesOf(arg1.values)
            names2 == NamesOf(arg2.values)
            both == names1 \cap names2
        IN /\ Len(section.subsections) = Cardinality(both)
           /\ \A n \in both :
                 \E k \in 1..Len(section.subsections) :
                    LET sub == section.subsections[k]
                    IN /\ sub.type = "Enum_Value_Comparison"
                       /\ sub.a = n /\ sub.b = n
                       /\ sub.subsections = <<>>
                       /\ sub.items =
                            IF NumberOf(arg1, n) # NumberOf(arg2, n)
                            THEN <<Item("Enum_Value_Id_Changed",
                                        to_string(NumberOf(arg1, n)),
                                        to_string(NumberOf(arg2, n)))>>
                            ELSE <<>>
           /\ Len(section.items) =
                 Cardinality(names1 \ names2) + Cardinality(names2 \ names1)
           /\ \A n \in names1 \ names2 :
                 Cardinality(ItemPositions(section.items, "Enum_Value_Removed", n, "")) = 1
           /\ \A n \in names2 \ names1 :
                 Cardinality(ItemPositions(section.items, "Enum_Value_Added", "", n)) = 1

\* a value that kept its id and changed its name, compared
C7_Witness ==
    /\ pc = "enum_compared"
    /\ \E v1 \in Range(arg1.values), v2 \in Range(arg2.values) :
          /\ v1.number = v2.number
          /\ v1.name \notin NamesOf(arg2.values)
          /\ v2.name \notin NamesOf(arg1.values)
    /\ \E n \in NamesOf(arg1.values) \cap NamesOf(arg2.values) :
          NumberOf(arg1, n) # NumberOf(arg2, n)

\* C10: the type part of a field comparison. If the two types differ the field
\* section has exactly one Message_Field_Type_Changed item, with the two type
\* names, and no child; if both are enums (messages) it has exactly one child,
\* the enum (message) comparison of the two referenced types, and one
\* Message_Field_Type_Changed item with the two qualified names iff they
\* differ; in every other case (the same scalar type, or two groups) it has
\* neither.
C10_FieldTypeComparison ==
    pc = "field_compared" =>
        LET changes == ItemsOfType(section.items, "Message_Field_Type_Changed")
        IN IF arg1.type # arg2.type
           THEN /\ changes = <<Item("Message_Field_Type_Changed", arg1.type, arg2.type)>>
                /\ section.subsections = <<>>
           ELSE IF arg1.type = "enum"
           THEN /\ Len(section.subsections) = 1
                /\ section.subsections[1].type = "Enum_Comparison"
                /\ section.subsections[1] =
                      CompareEnum(enum_type(source1, arg1), enum_type(source2, arg2))
                /\ changes =
                      IF arg1.type_ref # arg2.type_ref
                      THEN <<Item("Message_Field_Type_Changed", arg1.type_ref, arg2.type_ref)>>
                      ELSE <<>>
           ELSE IF arg1.type = "message"
           THEN /\ Len(section.subsections) = 1
                /\ section.subsections[1].type = "Message_Comparison"
                /\ section.subsections[1] =
                      CompareDesc(source1, source2, message_type(source1, arg1),
                                  message_type(source2, arg2))
                /\ changes =
                      IF arg1.type_ref # arg2.type_ref
                      THEN <<Item("Message_Field_Type_Changed", arg1.type_ref, arg2.type_ref)>>
                      ELSE <<>>
           ELSE changes = <<>> /\ section.subsections = <<>>

\* two enum-typed fields that refer to enums of different names, compared
C10_Witness ==
    /\ pc = "field_compared"
    /\ arg1.type = "enum" /\ arg2.type = "enum"
    /\ arg1.type_ref # arg2.type_ref
    /\ section.subsections[1].items # <<>>

\* whether the defaults of two fields of the same representation differ
DefaultsDiffer(field1, field2) ==
    CASE cpp_type(field1) \in {"CPPTYPE_INT32", "CPPTYPE_INT64",
                               "CPPTYPE_UINT32", "CPPTYPE_UINT64"} ->
            field1.default_value.num # field2.default_value.num
      [] cpp_type(field1) \in {"CPPTYPE_FLOAT", "CPPTYPE_DOUBLE"} ->
            \/ field1.default_value.nan
            \/ field2.default_value.nan
            \/ field1.default_value.num # field2.default_value.num
      [] cpp_type(field1) = "CPPTYPE_BOOL" ->
            field1.default_value.flag # field2.default_value.flag
      [] cpp_type(field1) = "CPPTYPE_STRING" ->
            field1.default_value.str # field2.default_value.str
      [] cpp_type(field1) = "CPPTYPE_ENUM" ->
            field1.default_value.enum.number # field2.default_value.enum.number
      [] OTHER -> FALSE

\* C2: the field section holds a Message_Field_Default_Value_Changed item iff
\* the two fields have the same representation and either exactly one of them
\* has a default or both have one and the two defaults differ.
C2_DefaultValueChangeDetected ==
    pc = "field_compared" =>
        ((\E i \in 1..Len(section.items) :
             section.items[i].type = "Message_Field_Default_Value_Changed")
         <=> /\ cpp_type(arg1) = cpp_type(arg2)
             /\ \/ arg1.has_default_value # arg2.has_default_value
                \/ /\ arg1.has_default_value
                   /\ arg2.has_default_value
                   /\ DefaultsDiffer(arg1, arg2))


\* C1: identity. A whole-schema comparison of a schema with itself, trimmed,
\* leaves the root without items and without subsections.
C1_IdentityTrimsToEmpty ==
    (pc = "trimmed" /\ message_name = "." /\ source1 = source2) =>
        root.items = <<>> /\ root.subsections = <<>>

RECURSIVE TreeItems(_)
\* the items of sec and of every section below it
TreeItems(sec) ==
    Range(sec.items) \cup UNION {TreeItems(sec.subsections[i]) : i \in 1..Len(sec.subsections)}

AdditionTypes ==
    {"Enum_Value_Added", "Message_Field_Added", "File_Message_Added", "File_Enum_Added"}

RemovalTypes ==
    {"Enum_Value_Removed", "Message_Field_Removed", "File_Message_Removed",
     "File_Enum_Removed"}

\* the names of the entities of a source that an item of type t is about
EntityNames(src, t) ==
    CASE t \in {"File_Message_Added", "File_Message_Removed"} ->
            {m.full_name : m \in Range(src.messages)}
      [] t \in {"File_Enum_Added", "File_Enum_Removed"} ->
            {e.full_name : e \in Range(src.enums)}
      [] t \in {"Message_Field_Added", "Message_Field_Removed"} ->
            UNION {NamesOf(m.fields) : m \in Range(src.messages)}
      [] t \in {"Enum_Value_Added", "Enum_Value_Removed"} ->
            UNION {NamesOf(e.values) : e \in Range(src.enums)}

\* C3: in the tree a comparison produced, every addition item has an empty
\* before and the name of an entity of the second schema as after, and every
\* removal item has the name of an entity of the first schema as before and an
\* empty after.
C3_AdditionAndRemovalPayload ==
    pc = "compared" =>
        \A it \in TreeItems(root) :
            /\ it.type \in AdditionTypes =>
                  it.a = "" /\ it.b \in EntityNames(source2, it.type)
            /\ it.type \in RemovalTypes =>
                  it.b = "" /\ it.a \in EntityNames(source1, it.type)

\* C4: after a whole-schema comparison, every top-level message of the second
\* file that no top-level message of the first file shares its name with has
\* exactly one File_Message_Added item in the root, with its full name as
\* after, and no File_Message_Removed item; and every top-level message of the
\* first file without a namesake in the second has exactly one
\* File_Message_Removed item, with its full name as before, and no
\* File_Message_Added item. (Each pair of files is compared in both orders.)
C4_AddedRemovedSymmetry ==
    (pc = "compared" /\ message_name = ".") =>
        /\ \A M \in Range(source2.messages) :
              M.name \notin NamesOf(source1.messages) =>
                 /\ Cardinality({i \in 1..Len(root.items) :
                        /\ root.items[i].type = "File_Message_Added"
                        /\ root.items[i].b = M.full_name}) = 1
                 /\ \A i \in 1..Len(root.items) :
                        root.items[i].type = "File_Message_Removed"
                           => root.items[i].a # M.full_name
        /\ \A M \in Range(source1.messages) :
              M.name \notin NamesOf(source2.messages) =>
                 /\ Cardinality({i \in 1..Len(root.items) :
                        /\ root.items[i].type = "File_Message_Removed"
                        /\ root.items[i].a = M.full_name}) = 1
                 /\ \A i \in 1..Len(root.items) :
                        root.items[i].type = "File_Message_Added"
                           => root.items[i].b # M.full_name

\* a whole-schema comparison of two files of different packages where a message
\* is only in the second file and another only in the first
C4_Witness ==
    /\ pc = "compared"
    /\ message_name = "."
    /\ source1.package # source2.package
    /\ \E M \in Range(source2.messages) : M.name \notin NamesOf(source1.messages)
    /\ \E M \in Range(source1.messages) : M.name \notin NamesOf(source2.messages)

\* C6: the single-entity comparison. If the name is a message of both pools,
\* the root gets exactly one Message_Comparison subsection (of that name) and no
\* item; else if it is an enum of both, exactly one Enum_Comparison subsection
\* and no item; in every other case the root holds the one item
\* Name_Missing(name, name) and no subsection, and the comparison returns.
C6_SingleEntityResolution ==
    (pc \in {"compared", "overflow"} /\ message_name # ".") =>
        LET msg1 == message_name \in {m.full_name : m \in Range(source1.messages)}
            msg2 == message_name \in {m.full_name : m \in Range(source2.messages)}
            enum1 == message_name \in {e.full_name : e \in Range(source1.enums)}
            enum2 == message_name \in {e.full_name : e \in Range(source2.enums)}
        IN IF msg1 /\ msg2
           THEN pc = "compared" =>
                   /\ root.items = <<>>
                   /\ Len(root.subsections) = 1
                   /\ root.subsections[1].type = "Message_Comparison"
                   /\ root.subsections[1].a = message_name
                   /\ root.subsections[1].b = message_name
           ELSE IF enum1 /\ enum2
           THEN /\ pc = "compared"
                /\ root.items = <<>>
                /\ Len(root.subsections) = 1
                /\ root.subsections[1].type = "Enum_Comparison"
                /\ root.subsections[1].a = message_name
                /\ root.subsections[1].b = message_name
           ELSE /\ pc = "compared"
                /\ root.items = <<Item("Name_Missing", message_name, message_name)>>
                /\ root.subsections = <<>>

\* a name that is a message of the first pool and an enum of the second
C6_Witness ==
    /\ pc = "compared"
    /\ message_name \in {m.full_name : m \in Range(source1.messages)}
    /\ message_name \in {e.full_name : e \in Range(source2.enums)}
    /\ root.items # <<>>

\* C8: termination. The stack holds StackLimit frames of the message
\* comparison, more than any of the sources has message types, so a comparison
\* whose recursion depth is bounded by the nesting depth of the schema never
\* exhausts it: the whole-schema and the single-entity comparison return.
C8_ComparisonTerminates ==
    /\ pc # "overflow"
    /\ \A src \in {source1, source2} : Len(src.messages) < StackLimit


\* the type of each item of a list with the name of the entity it is about
ItemKeys(items) ==
    [i \in 1..Len(items) |->
        <<items[i].type,
          IF items[i].type \in RemovalTypes THEN items[i].a ELSE items[i].b>>]

\* the type and first name of each section of a list
SectionKeys(subsections) ==
    [i \in 1..Len(subsections) |-> <<subsections[i].type, subsections[i].a>>]

\* the entries of seq whose name is not in names, each as (t, its key), in order
Missing(seq, names, t, Key(_)) ==
    LET lone == SelectSeq(seq, LAMBDA x : x.name \notin names)
    IN [i \in 1..Len(lone) |-> <<t, Key(lone[i])>>]

\* the entries of seq whose name is in names, each as (t, its key), in order
Matched(seq, names, t, Key(_)) ==
    LET paired == SelectSeq(seq, LAMBDA x : x.name \in names)
    IN [i \in 1..Len(paired) |-> <<t, Key(paired[i])>>]

FullName(x) == x.full_name

SimpleName(x) == x.name

\* sibling order in one section: what its two lists must hold, in order
SiblingOrder(sec) ==
    CASE sec.type = "Root_Section" ->
            /\ ItemKeys(sec.items) =
                  Missing(source1.messages, NamesOf(source2.messages),
                          "File_Message_Removed", FullName)
                  \o Missing(source2.messages, NamesOf(source1.messages),
                             "File_Message_Added", FullName)
                  \o Missing(source1.enums, NamesOf(source2.enums),
                             "File_Enum_Removed", FullName)
                  \o Missing(source2.enums, NamesOf(source1.enums),
                             "File_Enum_Added", FullName)
            /\ SectionKeys(sec.subsections) =
                  Matched(source1.messages, NamesOf(source2.messages),
                          "Message_Comparison", FullName)
                  \o Matched(source1.enums, NamesOf(source2.enums),
                             "Enum_Comparison", FullName)
      [] sec.type = "Message_Comparison" ->
            LET desc1 == CHOOSE m \in Range(source1.messages) : m.full_name = sec.a
                desc2 == CHOOSE m \in Range(source2.messages) : m.full_name = sec.b
            IN /\ ItemKeys(sec.items) =
                     Missing(desc1.fields, NamesOf(desc2.fields),
                             "Message_Field_Removed", SimpleName)
                     \o Missing(desc2.fields, NamesOf(desc1.fields),
                                "Message_Field_Added", SimpleName)
               /\ SectionKeys(sec.subsections) =
                     Matched(desc1.fields, NamesOf(desc2.fields),
                             "Message_Field_Comparison", FullName)
      [] sec.type = "Enum_Comparison" ->
            LET enum1 == CHOOSE e \in Range(source1.enums) : e.full_name = sec.a
                enum2 == CHOOSE e \in Range(source2.enums) : e.full_name = sec.b
            IN /\ ItemKeys(sec.items) =
                     Missing(enum1.values, NamesOf(enum2.values),
                             "Enum_Value_Removed", SimpleName)
                     \o Missing(enum2.values, NamesOf(enum1.values),
                                "Enum_Value_Added", SimpleName)
               /\ SectionKeys(sec.subsections) =
                     Matched(enum1.values, NamesOf(enum2.values),
                             "Enum_Value_Comparison", SimpleName)
      [] OTHER -> TRUE

\* in the items of sec, every addition comes after every removal
AdditionsAfterRemovals(sec) ==
    \A i, j \in 1..Len(sec.items) :
        (sec.items[i].type \in AdditionTypes /\ sec.items[j].type \in RemovalTypes)
            => j < i

\* C9, as amended: in the tree of a whole-schema comparison, each section's
\* subsections are the nested comparisons in the first schema's declaration
\* order, and its items are the removal items in the first schema's declaration
\* order followed by the addition items in the second schema's declaration
\* order, for the fields of a message and the values of an enum; in the root
\* this holds for the messages and for the enums separately, and in both lists
\* the results for messages come before the results for enums.
C9_SiblingOrderPerKind ==
    (pc = "compared" /\ message_name = ".") =>
        \A path \in Paths(root) : SiblingOrder(SectionAt(root, path))

\* C9, as claimed: the above, and in every section every addition item is
\* placed after all removal items, which stem from the first schema's entities.
C9_AdditionsAfterAllFirstSchemaResults ==
    (pc = "compared" /\ message_name = ".") =>
        \A path \in Paths(root) :
            /\ SiblingOrder(SectionAt(root, path))
            /\ AdditionsAfterRemovals(SectionAt(root, path))

\* a whole-schema comparison that reports an added message before a removed enum
C9_Witness ==
    /\ pc = "compared"
    /\ message_name = "."
    /\ \E i, j \in 1..Len(root.items) :
          /\ i < j
          /\ root.items[i].type = "File_Message_Added"
          /\ root.items[j].type = "File_Enum_Removed"

====
